---- MODULE Spec2Model ----
(***************************************************************************)
(* A model of the AtomECS per-tick kernel: the dispatcher built by         *)
(* create_dispatcher_running (src/src/initiate/ecs.rs), the detector sweep *)
(* (src/src/output.rs) and the spatial partition (src/src/partition.rs).   *)
(*                                                                         *)
(* Reals are exact rationals: float rounding is not modelled.  Positions,   *)
(* velocities and detector geometry of the dispatcher model are integer    *)
(* vectors; positions and box widths of the partition model are counted    *)
(* in tenths of the length unit.                                           *)
(***************************************************************************)
EXTENDS Integers, Sequences, FiniteSets, TLC

\* ------------------------------------------------------------------ bounds
\* number of atom entities in the world
NumAtoms == 2
\* number of iterations of the main loop that are explored
MaxTick == 3
\* number of iterations explored when the partition systems run
MaxPartitionTick == 3
\* the cube root of the rescaling is rounded down to a multiple of 1/CbrtDen
CbrtDen == 4

VARIABLES
    sys_state,      \* dispatcher: per system "idle" | "running" | "done" in this tick
    phase,          \* position of the main loop: "dispatch" | "maintain"
    tick,           \* number of the current iteration of the main loop (from 1)
    hasPos,         \* Position storage: which entities hold the component
    hasVel,         \* Velocity storage: which entities hold the component
    pos,            \* Position.pos per entity
    vel,            \* Velocity.vel per entity
    lazy,           \* LazyUpdate: the edits queued and not yet applied
    detectors,      \* the Detector components of the world (in join order)
    ring_detectors, \* the RingDetector components of the world (in join order)
    atom_output,    \* resource AtomOuput
    output_before,  \* history: AtomOuput when DetectingAtomSystem last started
    marked_tick,    \* history: per entity, the tick in which detect queued its removal (0: never)
    hasBoxID,       \* BoxID storage: which entities hold the component
    boxid,          \* BoxID.id per entity
    partition_params, \* resource PartitionParameters
    hashmap,        \* resource VelocityHashmap: cell id -> PartitionCell
    fault,          \* "none", or the panic that ended the run
    last_run,       \* history: the system that ran last
    params_before,  \* history: PartitionParameters when the rescaling last started
    id_args,        \* the arguments of a call of pos_to_id
    id_ret,         \* its result <<id>>, NoResult before the call returns
    resources,      \* the resources added to the world, by type name
    call,           \* a call of a function of the kernel: its name and arguments
    ret,            \* its result <<value>>, NoResult before the call returns
    sampler_field,  \* MagneticFieldSampler.field per entity
    quadrupoles,    \* the QuadrupoleField3D sources of the world (in join order)
    grids,          \* the PrecalculatedMagneticFieldGrid sources (in join order)
    mag_done        \* the magnetic systems that have run in this tick

schedVars == <<sys_state, phase, tick>>
worldVars == <<hasPos, hasVel, pos, vel, lazy, detectors, ring_detectors>>
outVars   == <<atom_output, output_before, marked_tick>>
boxVars   == <<hasBoxID, boxid>>
partVars  == <<partition_params, hashmap, fault, last_run, params_before>>
idVars    == <<id_args, id_ret>>
callVars  == <<call, ret>>
magVars   == <<sampler_field, quadrupoles, grids, mag_done>>
extVars   == <<resources, callVars, magVars>>
vars      == <<schedVars, worldVars, outVars, boxVars, partVars, idVars, extVars>>

Atoms == 1 .. NumAtoms

\* ------------------------------------------------------------ vector maths
Vec(x, y, z) == <<x, y, z>>
array_addition(a, b) == [i \in 1 .. 3 |-> a[i] + b[i]]
array_multiply(a, k) == [i \in 1 .. 3 |-> a[i] * k]
dot_product(a, b) == a[1] * b[1] + a[2] * b[2] + a[3] * b[3]

\* ------------------------------------------------------ dispatcher builder
Systems ==
    {"magnetics_magnitude", "updatelaserinter", "update_kick", "updateforce",
     "updatepos", "print", "detect"}

\* The body of add_systems_to_dispatch_magnetic is not part of the sources at
\* hand: it registers "magnetics_magnitude", the name later systems depend on,
\* with the dependencies it is given.
add_systems_to_dispatch_magnetic(deps) ==
    [s \in {"magnetics_magnitude"} |-> deps]

\* Likewise add_systems_to_dispatch_laser registers "updatelaserinter".
add_systems_to_dispatch_laser(deps) ==
    [s \in {"updatelaserinter"} |-> deps]

\* A slip of the registration: print declared after the kick instead of the
\* integrator.
add_systems_print_after_kick(deps) ==
    [s \in {"update_kick", "updateforce", "updatepos", "print", "detect"} |->
        CASE s = "update_kick" -> deps
          [] s = "updateforce" -> {"update_kick"}
          [] s = "updatepos"   -> {"update_kick"}
          [] s = "print"       -> {"update_kick"}
          [] s = "detect"      -> {"updatepos"}]

add_systems_to_dispatch_general_update(deps) ==
    [s \in {"update_kick", "updateforce", "updatepos", "print", "detect"} |->
        CASE s = "update_kick" -> deps
          [] s = "updateforce" -> {"update_kick"}
          [] s = "updatepos"   -> {"update_kick"}
          [] s = "print"       -> {"updatepos"}
          [] s = "detect"      -> {"updatepos"}]

\* The dependency sets the built dispatcher holds, per system name.
create_dispatcher_running ==
    add_systems_to_dispatch_magnetic({})
        @@ add_systems_to_dispatch_laser({"magnetics_magnitude"})
        @@ add_systems_to_dispatch_general_update({"updatelaserinter"})

\* ----------------------------------------------------------------- output
\* Detector: centre and range; RingDetector: centre, direction, radius,
\* width, thickness.
\* A box test that takes the faces of the box in.
if_detect_closed(_detector, position) ==
    \A i \in 1 .. 3 :
        /\ position[i] <= _detector.centre[i] + _detector.range[i]
        /\ position[i] >= _detector.centre[i] - _detector.range[i]

if_detect(_detector, position) ==
    \A i \in 1 .. 3 :
        /\ position[i] < _detector.centre[i] + _detector.range[i]
        /\ position[i] > _detector.centre[i] - _detector.range[i]

\* A ring test whose last two comparisons bound the axial distance by half
\* the thickness on either side.
if_detect_ring_banded(_detector, position) ==
    LET dir == _detector.direction
        rela_pos == array_addition(position, array_multiply(_detector.centre, -1))
        distance_axial == dot_product(rela_pos, dir)
        radial2 == dot_product(rela_pos, rela_pos) - distance_axial * distance_axial
        Less(c) == c > 0 /\ radial2 < c * c
        Greater(c) == c < 0 \/ radial2 > c * c
    IN  /\ Greater(_detector.radius)
        /\ Less(_detector.radius + _detector.width)
        /\ 2 * distance_axial < _detector.thickness
        /\ 2 * distance_axial > -_detector.thickness

\* distance_radial is a square root: the comparisons are made on squares.
\* d < c  for d >= 0  is  c > 0 /\ d^2 < c^2 ;  d > c  is  c < 0 \/ d^2 > c^2.
\* The ring directions of the model are unit vectors along an axis, on which
\* maths::norm changes nothing.  The halves of thickness are compared doubled.
if_detect_ring(_detector, position) ==
    LET dir == _detector.direction
        rela_pos == array_addition(position, array_multiply(_detector.centre, -1))
        distance_axial == dot_product(rela_pos, dir)
        radial2 == dot_product(rela_pos, rela_pos) - distance_axial * distance_axial
        Less(c) == c > 0 /\ radial2 < c * c
        Greater(c) == c < 0 \/ radial2 > c * c
        LessHalf(t) == t > 0 /\ 4 * radial2 < t * t
    IN  /\ Greater(_detector.radius)
        /\ Less(_detector.radius + _detector.width)
        /\ LessHalf(_detector.thickness)
        /\ LessHalf(-_detector.thickness)

Remove(comp, e) == [op |-> "remove", comp |-> comp, ent |-> e]

\* The entities a join over (&ent, &mut _vel, &_pos) visits, in index order.
RECURSIVE JoinPosVel(_)
JoinPosVel(n) ==
    IF n = 0 THEN <<>>
    ELSE IF hasPos[n] /\ hasVel[n] THEN Append(JoinPosVel(n - 1), n)
         ELSE JoinPosVel(n - 1)

\* A slip of the sweep: the atom is counted but its removal is not queued.
AbsorbNoRemoval(acc, e) ==
    [out  |-> [number_of_atom |-> acc.out.number_of_atom + 1,
               total_velocity |-> array_addition(acc.out.total_velocity, vel[e])],
     lazy |-> acc.lazy]

\* One detected atom: lines 83-88 (and 96-101) of DetectingAtomSystem::run.
Absorb(acc, e) ==
    [out  |-> [number_of_atom |-> acc.out.number_of_atom + 1,
               total_velocity |-> array_addition(acc.out.total_velocity, vel[e])],
     lazy |-> acc.lazy \cup {Remove("Position", e), Remove("Velocity", e)}]

\* The inner loop over the atoms, for one box detector.
RECURSIVE SweepBox(_, _, _)
SweepBox(d, ents, acc) ==
    IF ents = <<>> THEN acc
    ELSE SweepBox(d, Tail(ents),
                  IF if_detect(d, pos[Head(ents)]) THEN Absorb(acc, Head(ents)) ELSE acc)

\* The inner loop over the atoms, for one ring detector.
RECURSIVE SweepRing(_, _, _)
SweepRing(d, ents, acc) ==
    IF ents = <<>> THEN acc
    ELSE SweepRing(d, Tail(ents),
                   IF if_detect_ring(d, pos[Head(ents)]) THEN Absorb(acc, Head(ents)) ELSE acc)

RECURSIVE SweepBoxes(_, _)
SweepBoxes(ds, acc) ==
    IF ds = <<>> THEN acc
    ELSE SweepBoxes(Tail(ds), SweepBox(Head(ds), JoinPosVel(NumAtoms), acc))

RECURSIVE SweepRings(_, _)
SweepRings(ds, acc) ==
    IF ds = <<>> THEN acc
    ELSE SweepRings(Tail(ds), SweepRing(Head(ds), JoinPosVel(NumAtoms), acc))

\* DetectingAtomSystem::run: the box detectors, then the ring detectors.
DetectingAtomSystem_run ==
    SweepRings(ring_detectors,
               SweepBoxes(detectors, [out |-> atom_output, lazy |-> lazy]))


\* ---------------------------------------------------------------- reals
\* A box width is a f64: NaN, or the positive rational num/den (in tenths).
NaN == [nan |-> TRUE, num |-> 0, den |-> 1]

RECURSIVE GCD(_, _)
GCD(a, b) == IF b = 0 THEN a ELSE GCD(b, a % b)

Real(num, den) ==
    LET g == GCD(num, den) IN [nan |-> FALSE, num |-> num \div g, den |-> den \div g]

Abs(x) == IF x < 0 THEN -x ELSE x

\* ceil(a / b) for b > 0
CeilDiv(a, b) == -((-a) \div b)

\* i64::MAX, the id of the atoms that left the grid.  The model's integers are
\* 32 bits wide: the largest of them stands for it, far above every id that
\* the box numbers of the model can produce.
I64_MAX == 2147483647

\* `NaN as i64`: a float-to-integer cast saturates, and NaN becomes 0.
NaN_as_i64 == 0

\* ------------------------------------------------------------- partition
\* floor(p / width + 0.5 * n) as i64
AxisIndex(p, n, width) ==
    IF width.nan THEN NaN_as_i64
    ELSE (2 * p * width.den + n * width.num) \div (2 * width.num)

\* pos.abs() > (n as f64) / 2.0 * width ; false when width is NaN
BeyondBound(p, n, width) ==
    ~width.nan /\ 2 * Abs(p) * width.den > n * width.num

\* A slip of the flattening: the x and z indices change places.
pos_to_id_transposed(position, n, width) ==
    IF BeyondBound(position[1], n, width) THEN I64_MAX
    ELSE IF BeyondBound(position[2], n, width) THEN I64_MAX
    ELSE IF BeyondBound(position[3], n, width) THEN I64_MAX
    ELSE LET xp == AxisIndex(position[1], n, width)
             yp == AxisIndex(position[2], n, width)
             zp == AxisIndex(position[3], n, width)
         IN  zp + n * yp + n * n * xp

pos_to_id(position, n, width) ==
    IF BeyondBound(position[1], n, width) THEN I64_MAX
    ELSE IF BeyondBound(position[2], n, width) THEN I64_MAX
    ELSE IF BeyondBound(position[3], n, width) THEN I64_MAX
    ELSE LET xp == AxisIndex(position[1], n, width)
             yp == AxisIndex(position[2], n, width)
             zp == AxisIndex(position[3], n, width)
         IN  xp + n * yp + n * n * zp

InsertBoxID(e) == [op |-> "insert", comp |-> "BoxID", ent |-> e]

\* A cell whose particles are not counted.
count_particles_skipped(cell) == cell

\* PartitionCell; the fields no system of the model writes keep their defaults.
count_particles(cell) == [cell EXCEPT !.particle_number = Len(cell.velocities)]

\* map.entry(id).or_default().velocities.push(velocity)
PushVelocity(map, id, velocity) ==
    IF id \in DOMAIN map
    THEN [map EXCEPT ![id].velocities = Append(@, velocity)]
    ELSE map @@ (id :> [velocities |-> <<velocity>>, particle_number |-> 0])

EmptyMap == [k \in {} |-> 0]

\* The join over (&velocities, &boxids), in index order, skipping i64::MAX.
RECURSIVE CollectVelocities(_, _)
CollectVelocities(k, ids) ==
    IF k = 0 THEN EmptyMap
    ELSE LET map == CollectVelocities(k - 1, ids)
         IN  IF hasVel[k] /\ hasBoxID[k] /\ ids[k] # I64_MAX
             THEN PushVelocity(map, ids[k], vel[k])
             ELSE map

\* BuildSpatialPartitionSystem::run.  Every atom entity of the model holds the
\* Atom component.
BuildSpatialPartitionSystem_run ==
    LET n_boxes == partition_params.box_number
        ids == [e \in Atoms |->
                  IF hasPos[e] /\ hasBoxID[e]
                  THEN pos_to_id(pos[e], n_boxes, partition_params.box_width)
                  ELSE boxid[e]]
        map == CollectVelocities(NumAtoms, ids)
    IN  [lazy    |-> lazy \cup {InsertBoxID(e) : e \in {a \in Atoms : ~hasBoxID[a]}},
         boxid   |-> ids,
         hashmap |-> [k \in DOMAIN map |-> count_particles(map[k])]]

RECURSIVE TotalParticles(_, _)
TotalParticles(map, keys) ==
    IF keys = {} THEN 0
    ELSE LET k == CHOOSE x \in keys : TRUE
         IN  map[k].particle_number + TotalParticles(map, keys \ {k})

\* (num/den).powf(1.0 / 3.0), rounded down to a multiple of 1/CbrtDen
CubeRoot(num, den) ==
    LET k == CHOOSE j \in 0 .. 4 * CbrtDen :
                /\ j * j * j * den <= num * CbrtDen * CbrtDen * CbrtDen
                /\ (j + 1) * (j + 1) * (j + 1) * den > num * CbrtDen * CbrtDen * CbrtDen
    IN  Real(k, CbrtDen)

Multiply(a, b) ==
    IF a.nan \/ b.nan THEN NaN ELSE Real(a.num * b.num, a.den * b.den)

SetMax(S) == CHOOSE x \in S : \A y \in S : y <= x
SetMin(S) == CHOOSE x \in S : \A y \in S : x <= y

\* The coordinates pushed by the join over (&positions, &atoms).
Coordinates(i) == {pos[e][i] : e \in {a \in Atoms : hasPos[a]}}

\* (range / box_width).ceil() as i64
BoxNumberFor(range, width) ==
    IF width.nan THEN NaN_as_i64 ELSE CeilDiv(range * width.den, width.num)

\* RescalePartitionCellSystem::run.  Build leaves no cell without a velocity,
\* so total is positive whenever there is a cell.  get_max and get_min unwrap
\* None on an empty list: the system panics after box_width was written.
RescalePartitionCellSystem_run ==
    LET cells == DOMAIN hashmap
        total == TotalParticles(hashmap, cells)
        len   == Cardinality(cells)
        scale_factor ==
            IF len = 0 THEN NaN
            ELSE CubeRoot(partition_params.target_density * len, total)
        box_width == Multiply(partition_params.box_width, scale_factor)
        xs == Coordinates(1)
        ys == Coordinates(2)
        zs == Coordinates(3)
    IN  IF xs = {}
        THEN [params |-> [partition_params EXCEPT !.box_width = box_width],
              fault  |-> "unwrap on None"]
        ELSE LET xrange == SetMax(xs) - SetMin(xs)
                 yrange == SetMax(ys) - SetMin(xs)
                 zrange == SetMax(zs) - SetMin(xs)
                 range  == SetMax({xrange, yrange, zrange})
             IN  [params |-> [partition_params EXCEPT
                                 !.box_width = box_width,
                                 !.box_number = BoxNumberFor(range, box_width)],
                  fault  |-> "none"]

\* ------------------------------------------------------------- main loop
\* A slip of the main loop: the queue is dropped without being applied.
MaintainHasDropped(has, comp) ==
    [e \in Atoms |-> has[e]]

\* world.maintain(): the queued edits are applied to the storages.
MaintainHas(has, comp) ==
    [e \in Atoms |-> has[e] /\ Remove(comp, e) \notin lazy]

\* The integrator is not part of the sources at hand; with no force on the
\* atoms and a unit timestep the symplectic Euler step is x' = x + v.
EulerIntegrationSystem_run ==
    [e \in Atoms |-> IF hasPos[e] /\ hasVel[e] THEN array_addition(pos[e], vel[e]) ELSE pos[e]]

\* world.maintain() on the BoxID storage: the queued inserts are applied.
MaintainHasBoxID == [e \in Atoms |-> hasBoxID[e] \/ InsertBoxID(e) \in lazy]
MaintainBoxID == [e \in Atoms |-> IF InsertBoxID(e) \in lazy THEN 0 ELSE boxid[e]]

\* ------------------------------------------------------------ the worlds
StartPositions == {Vec(0, 0, 0), Vec(-2, 0, 0), Vec(0, 3, 0)}
StartVelocities == {Vec(1, 0, 0), Vec(0, -1, 0)}

BoxA == [centre |-> Vec(1, 0, 0), range |-> Vec(1, 1, 1)]
BoxB == [centre |-> Vec(1, 1, 0), range |-> Vec(2, 2, 2)]
BoxC == [centre |-> Vec(0, 0, 0), range |-> Vec(1, 1, 1)]
RingA == [centre |-> Vec(0, 0, 0), direction |-> Vec(0, 0, 1),
          radius |-> 1, width |-> 3, thickness |-> 2]

RingB == [centre |-> Vec(0, 1, 0), direction |-> Vec(1, 0, 0),
          radius |-> 0, width |-> 5, thickness |-> 8]

Worlds ==
    { [boxes |-> <<>>,           rings |-> <<>>],
      [boxes |-> <<BoxC>>,       rings |-> <<>>],
      [boxes |-> <<BoxA>>,       rings |-> <<RingA>>],
      [boxes |-> <<BoxA, BoxB>>, rings |-> <<>>],
      [boxes |-> <<>>,           rings |-> <<RingA>>],
      [boxes |-> <<>>,           rings |-> <<RingB, RingA>>] }

\* Partition parameters: box_number 2 of width 1.0 and box_number 4 of width
\* 0.5; both grids reach from -1.0 to 1.0 on every axis.
StartParams ==
    { [box_number |-> 2, box_width |-> Real(10, 1), target_density |-> 8],
      [box_number |-> 4, box_width |-> Real(5, 1),  target_density |-> 1] }

NoResult == <<>>

\* The parts of the state a specification does not use.
IdleDispatcher ==
    /\ sys_state = [s \in Systems |-> "idle"]
    /\ phase = "dispatch"
    /\ tick = 1

IdleOutput ==
    /\ detectors = <<>>
    /\ ring_detectors = <<>>
    /\ atom_output = [number_of_atom |-> 0, total_velocity |-> Vec(0, 0, 0)]
    /\ output_before = atom_output
    /\ marked_tick = [e \in Atoms |-> 0]

IdlePartition ==
    /\ hasBoxID = [e \in Atoms |-> FALSE]
    /\ boxid = [e \in Atoms |-> 0]
    /\ partition_params \in {p \in StartParams : p.box_number = 2}
    /\ hashmap = EmptyMap
    /\ fault = "none"
    /\ last_run = "none"
    /\ params_before = partition_params

IdleCall ==
    /\ id_args = [pos |-> Vec(0, 0, 0), n |-> 2, width |-> Real(10, 1)]
    /\ id_ret = NoResult

\* register_resources_lazy adds these three resources.
RegisteredResources == {"Timestep", "Step", "AtomOuput"}

IdleResources == resources = RegisteredResources

IdleCalls ==
    /\ call = [fn |-> "none"]
    /\ ret = NoResult

IdleMagnetic ==
    /\ sampler_field = [e \in Atoms |-> Vec(0, 0, 0)]
    /\ quadrupoles = <<>>
    /\ grids = <<>>
    /\ mag_done = {}

IdleExt == IdleResources /\ IdleCalls /\ IdleMagnetic

\* ------------------------------------------------ the dispatcher (Spec)
Init ==
    /\ IdleDispatcher
    /\ hasPos = [e \in Atoms |-> TRUE]
    /\ hasVel = [e \in Atoms |-> TRUE]
    /\ pos \in [Atoms -> StartPositions]
    /\ vel \in [Atoms -> StartVelocities]
    /\ lazy = {}
    /\ \E w \in Worlds : detectors = w.boxes /\ ring_detectors = w.rings
    /\ atom_output = [number_of_atom |-> 0, total_velocity |-> Vec(0, 0, 0)]
    /\ output_before = atom_output
    /\ marked_tick = [e \in Atoms |-> 0]
    /\ IdlePartition
    /\ IdleCall
    /\ IdleExt

\* dispatcher.dispatch: a worker takes up a system whose declared
\* dependencies have all completed in this tick.
Start(s) ==
    /\ phase = "dispatch"
    /\ tick <= MaxTick
    /\ sys_state[s] = "idle"
    /\ \A d \in create_dispatcher_running[s] : sys_state[d] = "done"
    /\ sys_state' = [sys_state EXCEPT ![s] = "running"]
    /\ output_before' = IF s = "detect" THEN atom_output ELSE output_before
    /\ UNCHANGED <<phase, tick, worldVars, atom_output, marked_tick, boxVars, partVars, idVars, extVars>>

\* A system that changes none of the modelled state completes.
Finish(s) ==
    /\ s \notin {"updatepos", "detect"}
    /\ phase = "dispatch"
    /\ sys_state[s] = "running"
    /\ sys_state' = [sys_state EXCEPT ![s] = "done"]
    /\ UNCHANGED <<phase, tick, worldVars, outVars, boxVars, partVars, idVars, extVars>>

FinishUpdatePos ==
    /\ phase = "dispatch"
    /\ sys_state["updatepos"] = "running"
    /\ sys_state' = [sys_state EXCEPT !["updatepos"] = "done"]
    /\ pos' = EulerIntegrationSystem_run
    /\ UNCHANGED <<phase, tick, hasPos, hasVel, vel, lazy, detectors, ring_detectors,
                   outVars, boxVars, partVars, idVars, extVars>>

FinishDetect ==
    /\ phase = "dispatch"
    /\ sys_state["detect"] = "running"
    /\ sys_state' = [sys_state EXCEPT !["detect"] = "done"]
    /\ LET r == DetectingAtomSystem_run
       IN  /\ atom_output' = r.out
           /\ lazy' = r.lazy
           /\ marked_tick' =
                [e \in Atoms |->
                    IF marked_tick[e] = 0 /\ (\E c \in r.lazy \ lazy : c.ent = e)
                    THEN tick ELSE marked_tick[e]]
    /\ UNCHANGED <<phase, tick, hasPos, hasVel, pos, vel, detectors, ring_detectors,
                   output_before, boxVars, partVars, idVars, extVars>>

\* A dispatch that returns once the integrator has completed.
DispatchReturnEarly ==
    /\ phase = "dispatch"
    /\ sys_state["updatepos"] = "done"
    /\ phase' = "maintain"
    /\ UNCHANGED <<sys_state, tick, worldVars, outVars, boxVars, partVars, idVars, extVars>>

\* dispatch returns once every system of the tick has completed.
DispatchReturn ==
    /\ phase = "dispatch"
    /\ \A s \in Systems : sys_state[s] = "done"
    /\ phase' = "maintain"
    /\ UNCHANGED <<sys_state, tick, worldVars, outVars, boxVars, partVars, idVars, extVars>>

\* world.maintain(), and the loop goes on to its next iteration.
Maintain ==
    /\ phase = "maintain"
    /\ hasPos' = MaintainHas(hasPos, "Position")
    /\ hasVel' = MaintainHas(hasVel, "Velocity")
    /\ hasBoxID' = MaintainHasBoxID
    /\ boxid' = MaintainBoxID
    /\ lazy' = {}
    /\ sys_state' = [s \in Systems |-> "idle"]
    /\ tick' = tick + 1
    /\ phase' = "dispatch"
    /\ UNCHANGED <<pos, vel, detectors, ring_detectors, outVars, partVars, idVars, extVars>>

Next ==
    \/ \E s \in Systems : Start(s)
    \/ \E s \in Systems : Finish(s)
    \/ FinishUpdatePos
    \/ FinishDetect
    \/ DispatchReturn
    \/ Maintain

Spec == Init /\ [][Next]_vars

\* ------------------------------------------- calls of pos_to_id (SpecId)
\* Coordinates in tenths: the positions of test_pos_to_id, the faces of its
\* grid (-10.0 and 10.0) and a few more.
CallCoordinates == {-101, -100, -99, -20, -1, 0, 10, 20, 99, 100, 101}

\* box_number with box_width: the grid of test_pos_to_id (10 of width 2.0),
\* small grids of even and odd box_number, box_number 0, and the parameters
\* a rescaling of an empty cell set leaves behind.
CallGrids ==
    { [n |-> 10, width |-> Real(20, 1)],
      [n |-> 2,  width |-> Real(10, 1)],
      [n |-> 3,  width |-> Real(15, 2)],
      [n |-> 1,  width |-> Real(40, 1)],
      [n |-> 0,  width |-> Real(10, 1)],
      [n |-> 0,  width |-> NaN] }

InitId ==
    /\ IdleDispatcher
    /\ hasPos = [e \in Atoms |-> TRUE]
    /\ hasVel = [e \in Atoms |-> TRUE]
    /\ pos = [e \in Atoms |-> Vec(0, 0, 0)]
    /\ vel = [e \in Atoms |-> Vec(0, 0, 0)]
    /\ lazy = {}
    /\ IdleOutput
    /\ IdlePartition
    /\ \E x, y, z \in CallCoordinates, g \in CallGrids :
          id_args = [pos |-> Vec(x, y, z), n |-> g.n, width |-> g.width]
    /\ id_ret = NoResult
    /\ IdleExt

CallPosToId ==
    /\ id_ret = NoResult
    /\ id_ret' = <<pos_to_id(id_args.pos, id_args.n, id_args.width)>>
    /\ UNCHANGED <<id_args, schedVars, worldVars, outVars, boxVars, partVars, extVars>>

NextId == CallPosToId

SpecId == InitId /\ [][NextId]_vars

\* ------------------------------------ the partition systems (SpecPartition)
\* Neither system is registered by create_dispatcher_running.  In every tick
\* the integrator runs first; then BuildSpatialPartitionSystem runs once and
\* RescalePartitionCellSystem, the less frequent of the two, at most once,
\* in either order; world.maintain() ends the tick.
PartitionSystems == {"updatepos", "build", "rescale"}

\* Positions in tenths: inside the grid, on its upper x face, outside it,
\* and inside with the y and z coordinates below every x coordinate.
PartitionPositions == {Vec(0, 0, 0), Vec(10, 0, 0), Vec(12, 0, 0), Vec(5, -10, -7)}
PartitionVelocities == {Vec(0, 0, 0), Vec(1, 0, 0)}

\* The atoms still holding Position and Velocity: all of them, all but one,
\* none (the others were absorbed by a detector before).
LiveAtoms == {Atoms, Atoms \ {1}, {}}

InitPartition ==
    /\ sys_state = [s \in PartitionSystems |-> "idle"]
    /\ phase = "dispatch"
    /\ tick = 1
    /\ \E live \in LiveAtoms :
          /\ hasPos = [e \in Atoms |-> e \in live]
          /\ hasVel = [e \in Atoms |-> e \in live]
    /\ pos \in [Atoms -> PartitionPositions]
    /\ vel \in [Atoms -> PartitionVelocities]
    /\ lazy = {}
    /\ IdleOutput
    /\ hasBoxID = [e \in Atoms |-> FALSE]
    /\ boxid = [e \in Atoms |-> 0]
    /\ partition_params \in StartParams
    /\ hashmap = EmptyMap
    /\ fault = "none"
    /\ last_run = "none"
    /\ params_before = partition_params
    /\ IdleCall
    /\ IdleExt

Running == phase = "dispatch" /\ fault = "none" /\ tick <= MaxPartitionTick

PartitionUpdatePos ==
    /\ Running
    /\ sys_state["updatepos"] = "idle"
    /\ sys_state' = [sys_state EXCEPT !["updatepos"] = "done"]
    /\ pos' = EulerIntegrationSystem_run
    /\ last_run' = "updatepos"
    /\ UNCHANGED <<phase, tick, hasPos, hasVel, vel, lazy, detectors, ring_detectors,
                   outVars, boxVars, partition_params, hashmap, fault, params_before, idVars, extVars>>

PartitionBuild ==
    /\ Running
    /\ sys_state["updatepos"] = "done"
    /\ sys_state["build"] = "idle"
    /\ sys_state' = [sys_state EXCEPT !["build"] = "done"]
    /\ LET r == BuildSpatialPartitionSystem_run
       IN  /\ lazy' = r.lazy
           /\ boxid' = r.boxid
           /\ hashmap' = r.hashmap
    /\ last_run' = "build"
    /\ UNCHANGED <<phase, tick, hasPos, hasVel, pos, vel, detectors, ring_detectors,
                   outVars, hasBoxID, partition_params, fault, params_before, idVars, extVars>>

PartitionRescale ==
    /\ Running
    /\ sys_state["updatepos"] = "done"
    /\ sys_state["rescale"] = "idle"
    /\ sys_state' = [sys_state EXCEPT !["rescale"] = "done"]
    /\ params_before' = partition_params
    /\ LET r == RescalePartitionCellSystem_run
       IN  /\ partition_params' = r.params
           /\ fault' = r.fault
    /\ last_run' = "rescale"
    /\ UNCHANGED <<phase, tick, worldVars, outVars, boxVars, hashmap, idVars, extVars>>

PartitionMaintain ==
    /\ Running
    /\ sys_state["build"] = "done"
    /\ hasPos' = MaintainHas(hasPos, "Position")
    /\ hasVel' = MaintainHas(hasVel, "Velocity")
    /\ hasBoxID' = MaintainHasBoxID
    /\ boxid' = MaintainBoxID
    /\ lazy' = {}
    /\ sys_state' = [s \in PartitionSystems |-> "idle"]
    /\ tick' = tick + 1
    /\ last_run' = "maintain"
    /\ UNCHANGED <<phase, pos, vel, detectors, ring_detectors, outVars,
                   partition_params, hashmap, fault, params_before, idVars, extVars>>

NextPartition ==
    \/ PartitionUpdatePos
    \/ PartitionBuild
    \/ PartitionRescale
    \/ PartitionMaintain

SpecPartition == InitPartition /\ [][NextPartition]_vars

\* ------------------------------------------------------------------------
\* Claims about the dispatcher and the detector sweep (Spec)
\* ------------------------------------------------------------------------
Started(s) == sys_state[s] # "idle"
Completed(s) == sys_state[s] = "done"

ForceAggregating ==
    {"magnetics_magnitude", "updatelaserinter", "update_kick", "updateforce"}

\* C1: in every tick the integrator "updatepos" starts only after every
\* force-aggregating system of the tick, the force sum "updateforce" included,
\* has completed.
C1_IntegratorAfterForces ==
    Started("updatepos") => \A s \in ForceAggregating : Completed(s)

\* C2: in every tick no system starts before the systems it is declared to
\* depend on have completed: the laser system after "magnetics_magnitude",
\* "update_kick" after "updatelaserinter", "updateforce" and "updatepos" after
\* "update_kick", "print" and "detect" after "updatepos".
C2_DeclaredOrder ==
    /\ Started("updatelaserinter") => Completed("magnetics_magnitude")
    /\ Started("update_kick") => Completed("updatelaserinter")
    /\ Started("updateforce") => Completed("update_kick")
    /\ Started("updatepos") => Completed("update_kick")
    /\ Started("print") => Completed("updatepos")
    /\ Started("detect") => Completed("updatepos")

\* Every system of the chain has started, the last two side by side.
C2_Witness ==
    /\ sys_state["print"] = "running"
    /\ sys_state["detect"] = "running"
    /\ sys_state["updateforce"] = "running"
    /\ tick = 2

\* C3: an atom whose removal the detector queued in tick N still holds its
\* Position and Velocity for the rest of tick N, and holds neither once a
\* later tick has begun, so that no join over positions and velocities of a
\* later tick visits it.
C3_RemovedBeforeNextTick ==
    \A e \in Atoms :
        /\ (marked_tick[e] = tick /\ phase = "dispatch") => (hasPos[e] /\ hasVel[e])
        /\ (marked_tick[e] # 0 /\ marked_tick[e] < tick) =>
              /\ ~hasPos[e]
              /\ ~hasVel[e]
              /\ \A i \in 1 .. Len(JoinPosVel(NumAtoms)) : JoinPosVel(NumAtoms)[i] # e

\* An atom absorbed in an earlier tick, while the detector of a later tick
\* has run to completion.
C3_Witness ==
    \E e \in Atoms :
        /\ marked_tick[e] # 0
        /\ marked_tick[e] < tick
        /\ sys_state["detect"] = "done"

\* The atoms a sweep of this tick visits, and those inside a box detector.
Live == {e \in Atoms : hasPos[e] /\ hasVel[e]}
InsideBox(d, p) ==
    \A i \in 1 .. 3 : d.centre[i] - d.range[i] < p[i] /\ p[i] < d.centre[i] + d.range[i]
Contained(d) == {e \in Live : InsideBox(d, pos[e])}

RECURSIVE SumVel(_, _)
SumVel(S, i) ==
    IF S = {} THEN 0
    ELSE LET e == CHOOSE x \in S : TRUE IN vel[e][i] + SumVel(S \ {e}, i)

RECURSIVE HitCount(_)
HitCount(ds) == IF ds = <<>> THEN 0 ELSE Cardinality(Contained(Head(ds))) + HitCount(Tail(ds))

RECURSIVE HitVel(_, _)
HitVel(ds, i) == IF ds = <<>> THEN 0 ELSE SumVel(Contained(Head(ds)), i) + HitVel(Tail(ds), i)

\* C4: once DetectingAtomSystem has run in a tick, every atom inside a box
\* detector has the removal of its Position and of its Velocity queued, each
\* box detector has added one to number_of_atom and the atom's velocity to
\* total_velocity for every atom inside it (with one box detector: one per
\* contained atom), and the atoms inside no detector keep both components,
\* have nothing queued and add nothing to the statistics.
C4_BoxDetectorAbsorbs ==
    Completed("detect") =>
        /\ \A e \in Live :
              IF \E k \in 1 .. Len(detectors) : e \in Contained(detectors[k])
              THEN Remove("Position", e) \in lazy /\ Remove("Velocity", e) \in lazy
              ELSE \A c \in lazy : c.ent # e
        /\ atom_output.number_of_atom =
              output_before.number_of_atom + HitCount(detectors)
        /\ \A i \in 1 .. 3 :
              atom_output.total_velocity[i] =
                  output_before.total_velocity[i] + HitVel(detectors, i)
        /\ Len(detectors) = 1 =>
              atom_output.number_of_atom =
                  output_before.number_of_atom + Cardinality(Contained(detectors[1]))

\* One box detector, one atom inside it and absorbed, the other outside.
C4_Witness ==
    /\ Completed("detect")
    /\ Len(detectors) = 1
    /\ \E e \in Live : e \in Contained(detectors[1]) /\ Remove("Position", e) \in lazy
    /\ \E e \in Live : e \notin Contained(detectors[1])
    /\ atom_output.number_of_atom = output_before.number_of_atom + 1
    /\ atom_output.total_velocity # output_before.total_velocity

\* ------------------------------------------------------------------------
\* Claims about pos_to_id (SpecId)
\* ------------------------------------------------------------------------
\* floor(p / box_width + 0.5 * n) for the coordinate p of a call, by the
\* arithmetic of the rationals
CallIndex(i) ==
    LET p == id_args.pos[i]
        w == id_args.width
    IN  (2 * p * w.den + id_args.n * w.num) \div (2 * w.num)

CallInExtent == \A i \in 1 .. 3 : 0 <= CallIndex(i) /\ CallIndex(i) < id_args.n
Returned == id_ret # NoResult
ValidGrid == id_args.n > 0 /\ ~id_args.width.nan

\* C5: for n > 0 and width > 0, a position with an axis index
\* floor(p/w + 0.5*n) outside [0, n) gets the sentinel id i64::MAX, a
\* coordinate on the upper face p = n*w/2 (index n) included.
C5_SentinelOutsideExtent ==
    (Returned /\ ValidGrid /\ ~CallInExtent) => id_ret[1] = I64_MAX

TestGrid == id_args.n = 10 /\ id_args.width = Real(20, 1)
TestCase(x, y, z, id) == (TestGrid /\ id_args.pos = Vec(x, y, z)) => id_ret[1] = id

\* C7: for a position inside the extent pos_to_id returns
\* index_x + n*index_y + n^2*index_z with index = floor(p/width + 0.5*n),
\* and the cases of test_pos_to_id come out as the test asserts.
C7_IdInsideExtent ==
    (Returned /\ ValidGrid) =>
        /\ CallInExtent =>
              id_ret[1] = CallIndex(1) + id_args.n * CallIndex(2)
                             + id_args.n * id_args.n * CallIndex(3)
        /\ TestCase(0, 0, 0, 555)
        /\ TestCase(10, 0, 0, 555)
        /\ TestCase(20, 0, 0, 556)
        /\ TestCase(99, 0, 0, 559)
        /\ TestCase(-99, 0, 0, 550)
        /\ TestCase(-99, -99, -99, 0)
        /\ TestCase(101, 0, 0, I64_MAX)

\* The call of the test at (9.9, 0, 0) has returned 559.
C7_Witness ==
    /\ TestGrid
    /\ id_args.pos = Vec(99, 0, 0)
    /\ CallInExtent
    /\ id_ret = <<559>>

\* C10: with box_number 0 no id is computed: the call is a fatal error and
\* returns neither a cell id nor the sentinel.
C10_ZeroBoxNumberIsFatal ==
    (id_args.n = 0 /\ ~id_args.width.nan) => ~Returned

\* ------------------------------------------------------------------------
\* Claims about the partition systems (SpecPartition)
\* ------------------------------------------------------------------------
\* floor(p / box_width + 0.5 * box_number) under the current parameters
ExtentIndex(p) ==
    LET w == partition_params.box_width
    IN  (2 * p * w.den + partition_params.box_number * w.num) \div (2 * w.num)

OutsideExtent(e) ==
    \E i \in 1 .. 3 :
        ExtentIndex(pos[e][i]) < 0 \/ ExtentIndex(pos[e][i]) >= partition_params.box_number

ValidParams == partition_params.box_number > 0 /\ ~partition_params.box_width.nan

\* The atoms the build has tagged: they hold Position, Velocity and BoxID.
Tagged == {e \in Atoms : hasPos[e] /\ hasVel[e] /\ hasBoxID[e]}

\* C6: after a run of BuildSpatialPartitionSystem an atom whose position is
\* outside the extent carries the sentinel id and is in no cell: the sentinel
\* is no key of the map and the cells count the atoms inside the extent only.
\* (Stated of the atoms that already hold a BoxID.)
C6_OutsideNeverCounted ==
    (last_run = "build" /\ ValidParams) =>
        /\ \A e \in Tagged : OutsideExtent(e) => boxid[e] = I64_MAX
        /\ I64_MAX \notin DOMAIN hashmap
        /\ TotalParticles(hashmap, DOMAIN hashmap)
              = Cardinality({e \in Tagged : ~OutsideExtent(e)})

\* C8: a run of RescalePartitionCellSystem on an empty cell set is skipped:
\* the parameters are as before and no fault is raised.
C8_EmptyRescaleSkipped ==
    (last_run = "rescale" /\ hashmap = EmptyMap) =>
        /\ partition_params = params_before
        /\ ~partition_params.box_width.nan
        /\ fault = "none"

\* The largest over the axes of (maximum - minimum on that axis).
AxisExtent(i) == SetMax(Coordinates(i)) - SetMin(Coordinates(i))
BoundingExtent == SetMax({AxisExtent(1), AxisExtent(2), AxisExtent(3)})

\* C9: after a run of RescalePartitionCellSystem box_number is the ceiling of
\* the bounding-box extent of the atoms divided by the new box_width.
C9_BoxNumberCoversExtent ==
    (last_run = "rescale" /\ fault = "none" /\ ~partition_params.box_width.nan) =>
        partition_params.box_number =
            CeilDiv(BoundingExtent * partition_params.box_width.den,
                    partition_params.box_width.num)

\* ================================================================= C11
\* ------------------------------ resources and the first tick (SpecSetup)
\* The resources a system declares as ReadExpect / WriteExpect in its
\* SystemData: PrintOutputSytem reads Step and Timestep, DetectingAtomSystem
\* writes AtomOuput.  The SystemData of the other systems of
\* create_dispatcher_running is not in the sources at hand.
ExpectedResources(s) ==
    CASE s = "print"  -> {"Step", "Timestep"}
      [] s = "detect" -> {"AtomOuput"}
      [] OTHER        -> {}

\* The driver has built the dispatcher and not yet added a resource.
InitSetup ==
    /\ sys_state = [s \in Systems |-> "idle"]
    /\ phase = "built"
    /\ tick = 1
    /\ hasPos = [e \in Atoms |-> TRUE]
    /\ hasVel = [e \in Atoms |-> TRUE]
    /\ pos \in [Atoms -> StartPositions]
    /\ vel = [e \in Atoms |-> Vec(0, 0, 0)]
    /\ lazy = {}
    /\ \E w \in Worlds : detectors = w.boxes /\ ring_detectors = w.rings
    /\ atom_output = [number_of_atom |-> 0, total_velocity |-> Vec(0, 0, 0)]
    /\ output_before = atom_output
    /\ marked_tick = [e \in Atoms |-> 0]
    /\ IdlePartition
    /\ IdleCall
    /\ resources = {}
    /\ IdleCalls
    /\ IdleMagnetic

register_resources_lazy ==
    /\ phase = "built"
    /\ resources' = resources \cup RegisteredResources
    /\ UNCHANGED <<schedVars, worldVars, outVars, boxVars, partVars, idVars,
                   callVars, magVars>>

\* world.add_resource(r) by the driver itself, as for Timestep in
\* 3d_mot_from_oven.rs.
add_resource(r) ==
    /\ phase = "built"
    /\ r \notin resources
    /\ resources' = resources \cup {r}
    /\ UNCHANGED <<schedVars, worldVars, outVars, boxVars, partVars, idVars,
                   callVars, magVars>>

\* The driver enters its loop.  Neither create_dispatcher_running nor the
\* setup of a ReadExpect / WriteExpect adds or looks up a resource.
EnterLoop ==
    /\ phase = "built"
    /\ phase' = "dispatch"
    /\ UNCHANGED <<sys_state, tick, worldVars, outVars, boxVars, partVars, idVars,
                   extVars>>

\* A worker takes up a system and fetches its SystemData: the fetch of a
\* ReadExpect / WriteExpect of a resource that is not in the world panics.
FetchAndStart(s) ==
    /\ phase = "dispatch"
    /\ fault = "none"
    /\ tick <= MaxTick
    /\ sys_state[s] = "idle"
    /\ \A d \in create_dispatcher_running[s] : sys_state[d] = "done"
    /\ IF ExpectedResources(s) \subseteq resources
       THEN /\ sys_state' = [sys_state EXCEPT ![s] = "running"]
            /\ output_before' = IF s = "detect" THEN atom_output ELSE output_before
            /\ UNCHANGED <<phase, fault>>
       ELSE /\ fault' = "fetch of a missing resource"
            /\ phase' = "aborted"
            /\ UNCHANGED <<sys_state, output_before>>
    /\ UNCHANGED <<tick, worldVars, atom_output, marked_tick, boxVars,
                   partition_params, hashmap, last_run, params_before, idVars, extVars>>

NextSetup ==
    \/ register_resources_lazy
    \/ \E r \in RegisteredResources : add_resource(r)
    \/ EnterLoop
    \/ \E s \in Systems : FetchAndStart(s)
    \/ \E s \in Systems : Finish(s)
    \/ FinishUpdatePos
    \/ FinishDetect
    \/ DispatchReturn
    \/ Maintain

SpecSetup == InitSetup /\ [][NextSetup]_vars

\* C11: a missing resource that a registered system requires is raised at
\* setup, before the first tick starts: when the run has ended on a missing
\* resource, no system of any tick has started.
C11_MissingResourceRaisedAtSetup ==
    fault # "none" => (tick = 1 /\ \A s \in Systems : sys_state[s] = "idle")

\* ================================================================= C12
\* ------------------------------------ PrecalculatedMagneticFieldGrid
\* A grid is [extent_spatial, position, extent_cells, grid]; grid is the
\* flattened Vec of one field per cell.  Lengths are in whole units.
CellCount(g) == g.extent_cells[1] * g.extent_cells[2] * g.extent_cells[3]

\* (fraction[i].max(0.0).min(1.0) * extent_cells[i] as f64) as i32, where
\* fraction = (pos - position + extent_spatial / 2) / extent_spatial; the
\* quotient is kept exact by doubling its numerator and denominator.  A
\* fraction clamped to 1.0 gives extent_cells[i].
cell_id(g, p, i) ==
    LET delta2  == 2 * (p[i] - g.position[i]) + g.extent_spatial[i]
        extent2 == 2 * g.extent_spatial[i]
    IN  IF delta2 <= 0 THEN 0
        ELSE IF delta2 >= extent2 THEN g.extent_cells[i]
        ELSE (delta2 * g.extent_cells[i]) \div extent2

position_to_grid_index(g, p) ==
    g.extent_cells[2] * (g.extent_cells[1] * cell_id(g, p, 1) + cell_id(g, p, 2))
        + cell_id(g, p, 3)

\* self.grid[index as usize]: indexing past the end of the Vec panics.
get_field(g, p) ==
    LET index == position_to_grid_index(g, p)
    IN  IF index < Len(g.grid)
        THEN [panic |-> FALSE, field |-> g.grid[index + 1]]
        ELSE [panic |-> TRUE,  field |-> Vec(0, 0, 0)]

\* The field stored in the cell of flattened index i - 1.
CellField(i) == Vec(i, 10 * i, -i)

GridOf(extent, position, cells) ==
    [extent_spatial |-> extent, position |-> position, extent_cells |-> cells,
     grid |-> [i \in 1..(cells[1] * cells[2] * cells[3]) |-> CellField(i)]]

\* A cubic grid about the origin and an oblong one off the origin.
CubicGrid  == GridOf(Vec(4, 4, 4), Vec(0, 0, 0), Vec(2, 2, 2))
OblongGrid == GridOf(Vec(6, 4, 2), Vec(1, 0, 0), Vec(3, 2, 1))

\* Coordinates inside, on the faces of and beyond both grids.
GridCoordinates == {-3, -2, -1, 0, 1, 2, 3, 4}
GridPositions == {Vec(x, y, z) : x \in GridCoordinates, y \in {-3, -2, 0, 1, 2, 3},
                                 z \in {-3, -1, 0, 1, 2}}

\* A grid of more cells along z than along y and x.
TallGrid == GridOf(Vec(2, 4, 6), Vec(0, 0, 0), Vec(1, 2, 3))

GridCalls ==
    [fn : {"position_to_grid_index", "get_field"},
     grid : {CubicGrid, OblongGrid, TallGrid}, pos : GridPositions]

\* ================================================================= C13
\* ----------------------------------- magnetic sampling (SpecMagnetic)
array_subtraction(a, b) == [i \in 1 .. 3 |-> a[i] - b[i]]

\* A quadrupole whose axial component is weighted like the radial one.
calculate_field_unweighted(p, centre, gradient, direction) ==
    LET delta  == array_subtraction(p, centre)
        z_comp == array_multiply(direction, dot_product(delta, direction))
        r_comp == array_subtraction(delta, z_comp)
    IN  array_multiply(array_subtraction(r_comp, z_comp), gradient)

\* Sample3DQuadrupoleFieldSystem::calculate_field; direction is a unit vector.
calculate_field(p, centre, gradient, direction) ==
    LET delta  == array_subtraction(p, centre)
        z_comp == array_multiply(direction, dot_product(delta, direction))
        r_comp == array_subtraction(delta, z_comp)
    IN  array_multiply(array_subtraction(r_comp, array_multiply(z_comp, 2)), gradient)

\* A sampling system that keeps the field of the source only.
SampleOverwrite(field, contribution) == contribution

\* sampler.field = sampler.field + <field of the source>
SampleInto(field, contribution) == array_addition(field, contribution)

\* The loops of Sample3DQuadrupoleFieldSystem::run for one sampler at p,
\* the sources taken in the given order.
RECURSIVE SampleQuadrupoles(_, _, _)
SampleQuadrupoles(field, p, sources) ==
    IF sources = <<>> THEN field
    ELSE LET q == Head(sources)
         IN  SampleQuadrupoles(
                 SampleInto(field, calculate_field(p, q.centre, q.gradient, q.direction)),
                 p, Tail(sources))

\* The loops of SampleMagneticGridSystem::run for one sampler at p; a panic
\* of get_field ends the run.
RECURSIVE SampleGrids(_, _, _)
SampleGrids(field, p, sources) ==
    IF sources = <<>> THEN [panic |-> FALSE, field |-> field]
    ELSE LET r == get_field(Head(sources), p)
         IN  IF r.panic THEN [panic |-> TRUE, field |-> field]
             ELSE SampleGrids(SampleInto(field, r.field), p, Tail(sources))

\* The orders in which a join may hand out the entities of a storage.
Orders(sources) ==
    {[i \in 1 .. Len(sources) |-> sources[f[i]]] : f \in Permutations(1 .. Len(sources))}

QuadrupoleX == [centre |-> Vec(0, 1, 0), gradient |-> 1, direction |-> Vec(0, 0, 1)]
QuadrupoleY == [centre |-> Vec(1, 0, 0), gradient |-> 3, direction |-> Vec(1, 0, 0)]

SamplerPositions == {Vec(1, 1, 1), Vec(0, 0, 0), Vec(-1, 1, -3), Vec(2, 0, 0), Vec(3, 1, 0)}

InitMagnetic ==
    /\ IdleDispatcher
    /\ hasPos = [e \in Atoms |-> TRUE]
    /\ hasVel = [e \in Atoms |-> TRUE]
    /\ pos \in [Atoms -> SamplerPositions]
    /\ vel = [e \in Atoms |-> Vec(0, 0, 0)]
    /\ lazy = {}
    /\ IdleOutput
    /\ IdlePartition
    /\ IdleCall
    /\ IdleResources
    /\ IdleCalls
    /\ sampler_field = [e \in Atoms |-> Vec(0, 0, 0)]
    /\ quadrupoles \in {<<>>, <<QuadrupoleX>>, <<QuadrupoleX, QuadrupoleY>>}
    /\ grids \in {<<>>, <<CubicGrid>>, <<CubicGrid, OblongGrid>>}
    /\ mag_done = {}

MagneticRunning == phase = "dispatch" /\ fault = "none" /\ tick <= MaxTick

MagneticUnchanged ==
    UNCHANGED <<schedVars, worldVars, outVars, boxVars, partition_params, hashmap,
                last_run, params_before, idVars, resources, callVars, quadrupoles, grids>>

\* The clearing of the samplers at the start of a tick is not part of the
\* sources at hand: every sampler starts the tick at zero.
ClearMagneticFieldSampler ==
    /\ MagneticRunning
    /\ mag_done = {}
    /\ sampler_field' = [e \in Atoms |-> Vec(0, 0, 0)]
    /\ mag_done' = {"clear"}
    /\ UNCHANGED fault
    /\ MagneticUnchanged

Sample3DQuadrupoleFieldSystem_run ==
    /\ MagneticRunning
    /\ "clear" \in mag_done
    /\ "quadrupole" \notin mag_done
    /\ \E order \in Orders(quadrupoles) :
          sampler_field' =
              [e \in Atoms |-> SampleQuadrupoles(sampler_field[e], pos[e], order)]
    /\ mag_done' = mag_done \cup {"quadrupole"}
    /\ UNCHANGED fault
    /\ MagneticUnchanged

SampleMagneticGridSystem_run ==
    /\ MagneticRunning
    /\ "clear" \in mag_done
    /\ "grid" \notin mag_done
    /\ \E order \in Orders(grids) :
          LET r == [e \in Atoms |-> SampleGrids(sampler_field[e], pos[e], order)]
          IN  IF \E e \in Atoms : r[e].panic
              THEN /\ fault' = "index out of bounds"
                   /\ UNCHANGED <<sampler_field, mag_done>>
              ELSE /\ sampler_field' = [e \in Atoms |-> r[e].field]
                   /\ mag_done' = mag_done \cup {"grid"}
                   /\ UNCHANGED fault
    /\ MagneticUnchanged

\* The tick ends, the particles move on.
MagneticTickEnd ==
    /\ MagneticRunning
    /\ mag_done = {"clear", "quadrupole", "grid"}
    /\ mag_done' = {}
    /\ tick' = tick + 1
    /\ pos' \in [Atoms -> SamplerPositions]
    /\ UNCHANGED <<sys_state, phase, hasPos, hasVel, vel, lazy, detectors, ring_detectors,
                   outVars, boxVars, partVars, idVars, resources, callVars,
                   sampler_field, quadrupoles, grids>>

NextMagnetic ==
    \/ ClearMagneticFieldSampler
    \/ Sample3DQuadrupoleFieldSystem_run
    \/ SampleMagneticGridSystem_run
    \/ MagneticTickEnd

SpecMagnetic == InitMagnetic /\ [][NextMagnetic]_vars

\* The sum of F[i] over the indices i of S.
RECURSIVE SumOfFields(_, _)
SumOfFields(F, S) ==
    IF S = {} THEN Vec(0, 0, 0)
    ELSE LET i == CHOOSE x \in S : TRUE
         IN  array_addition(F[i], SumOfFields(F, S \ {i}))

QuadrupoleFields(e) ==
    [i \in DOMAIN quadrupoles |->
        calculate_field(pos[e], quadrupoles[i].centre, quadrupoles[i].gradient,
                        quadrupoles[i].direction)]

GridFields(e) == [i \in DOMAIN grids |-> get_field(grids[i], pos[e]).field]

BothSampled == {"quadrupole", "grid"} \subseteq mag_done

\* C13: once both magnetic sampling systems have run in a tick, the field of
\* every sampler is the sum over all quadrupole and grid sources of the
\* field of that source at the particle's position, whatever the order of
\* the sources and of the two systems.
C13_FieldIsSumOfSources ==
    BothSampled =>
        \A e \in Atoms :
            sampler_field[e] =
                array_addition(SumOfFields(QuadrupoleFields(e), DOMAIN quadrupoles),
                               SumOfFields(GridFields(e), DOMAIN grids))

\* Two quadrupoles and two grids have been sampled in a second tick.
C13_Witness ==
    /\ BothSampled
    /\ tick = 2
    /\ Len(quadrupoles) = 2
    /\ Len(grids) = 2
    /\ \E e \in Atoms : sampler_field[e] # Vec(0, 0, 0)

\* ================================================================= C15
\* ------------------------------- CalculateTwoLevelPopulationSystem
\* crate::constant::PI as a ratio.
PiNum == 355
PiDen == 113

\* The quotient of a positive by zero.
Infinity == [nan |-> FALSE, num |-> 1, den |-> 0]

\* n / d for n = [num, den] and d = [num, den] with positive den: 0.0 / 0.0 is
\* NaN and x / 0.0 is infinite.
Divide(n, d) ==
    IF d.num = 0 THEN (IF n.num = 0 THEN NaN ELSE Infinity)
    ELSE IF d.num > 0 THEN Real(n.num * d.den, n.den * d.num)
    ELSE Real(-(n.num * d.den), n.den * (-d.num))

\* for count in 0..rates.contents.len() { sum_rates = sum_rates + rate }
RECURSIVE sum_rates(_)
sum_rates(contents) ==
    IF contents = <<>> THEN 0
    ELSE sum_rates(SubSeq(contents, 1, Len(contents) - 1)) + contents[Len(contents)]

\* An excited fraction that leaves the rates out of the denominator.
excited_unsaturated(linewidth, contents) ==
    Divide([num |-> sum_rates(contents), den |-> 1],
           [num |-> linewidth * 2 * PiNum, den |-> PiDen])

\* sum_rates / (atominfo.linewidth * 2. * PI + 2. * sum_rates)
excited(linewidth, contents) ==
    Divide([num |-> sum_rates(contents), den |-> 1],
           [num |-> linewidth * 2 * PiNum + 2 * sum_rates(contents) * PiDen,
            den |-> PiDen])

\* self.ground = 1. - self.excited
calculate_ground_state(e) ==
    IF e.nan THEN NaN
    ELSE IF e.den = 0 THEN [nan |-> FALSE, num |-> -1, den |-> 0]
    ELSE Real(e.den - e.num, e.den)

\* The TwoLevelPopulation the system writes for one entity.
CalculateTwoLevelPopulationSystem_run(linewidth, contents) ==
    LET e == excited(linewidth, contents)
    IN  [excited |-> e, ground |-> calculate_ground_state(e)]

\* Lists of non-negative rate coefficients: empty, all zero, and up to
\* MaxBeams beams.
MaxBeams == 2
RateValues == {0, 1, 5, 20}
RateLists == UNION {[1 .. n -> RateValues] : n \in 0 .. MaxBeams}
Linewidths == {-1, 0, 1, 6}

TwoLevelCalls == [fn : {"twolevel"}, linewidth : Linewidths, rates : RateLists]

\* ================================================================= C17
\* p is in the ring as RingDetector describes it: between the inner radius
\* and radius + width from the axis, within half the thickness along it.
InsideRing(d, p) ==
    LET rela  == array_subtraction(p, d.centre)
        axial == dot_product(rela, d.direction)
        radial2 == dot_product(rela, rela) - axial * axial
    IN  /\ radial2 > d.radius * d.radius
        /\ radial2 < (d.radius + d.width) * (d.radius + d.width)
        /\ 4 * axial * axial < d.thickness * d.thickness

DetectTest ==
    [fn |-> "if_detect", detector |-> [centre |-> Vec(0, 0, 0), range |-> Vec(10, 10, 10)],
     position |-> Vec(9, 8, -7)]

\* The box of the test, a box off the origin with unequal ranges, and boxes
\* with a zero and a negative range.
DetectBoxes ==
    { [centre |-> Vec(0, 0, 0),  range |-> Vec(10, 10, 10)],
      [centre |-> Vec(1, -1, 0), range |-> Vec(8, 10, 7)],
      [centre |-> Vec(0, 0, 0),  range |-> Vec(10, 0, 10)],
      [centre |-> Vec(0, 0, 0),  range |-> Vec(10, 10, -8)] }

DetectCoordinates == {-11, -10, -7, 0, 8, 9, 10}

DetectCalls ==
    [fn : {"if_detect"}, detector : DetectBoxes,
     position : {Vec(x, y, z) : x \in DetectCoordinates, y \in DetectCoordinates,
                                z \in DetectCoordinates}]

\* --------------------------- calls of the kernel's functions (SpecCalls)
\* test_quadrupole_3d_field
QuadrupoleTest ==
    [fn |-> "calculate_field", pos |-> Vec(1, 1, 1), centre |-> Vec(0, 1, 0),
     gradient |-> 1, direction |-> Vec(0, 0, 1)]

\* The unit vectors along the axes, of either sign.
AxisDirections ==
    {Vec(1, 0, 0), Vec(0, 1, 0), Vec(0, 0, 1), Vec(-1, 0, 0), Vec(0, -1, 0), Vec(0, 0, -1)}

FieldCalls ==
    [fn : {"calculate_field"},
     pos : {Vec(1, 1, 1), Vec(0, 0, 0), Vec(-1, 2, -3), Vec(2, 0, 1)},
     centre : {Vec(0, 1, 0), Vec(0, 0, 0), Vec(1, -1, 2)},
     gradient : {-2, 0, 1, 3},
     direction : AxisDirections]

Calls == GridCalls \cup FieldCalls \cup TwoLevelCalls \cup DetectCalls

InitCalls ==
    /\ IdleDispatcher
    /\ hasPos = [e \in Atoms |-> TRUE]
    /\ hasVel = [e \in Atoms |-> TRUE]
    /\ pos = [e \in Atoms |-> Vec(0, 0, 0)]
    /\ vel = [e \in Atoms |-> Vec(0, 0, 0)]
    /\ lazy = {}
    /\ IdleOutput
    /\ IdlePartition
    /\ IdleCall
    /\ IdleResources
    /\ IdleMagnetic
    /\ call \in Calls
    /\ ret = NoResult

Calling(fn) == call.fn = fn /\ ret = NoResult /\ fault = "none"

CallUnchanged ==
    UNCHANGED <<call, schedVars, worldVars, outVars, boxVars, partition_params,
                hashmap, last_run, params_before, idVars, resources, magVars>>

CallPositionToGridIndex ==
    /\ Calling("position_to_grid_index")
    /\ ret' = <<position_to_grid_index(call.grid, call.pos)>>
    /\ UNCHANGED fault
    /\ CallUnchanged

CallGetField ==
    /\ Calling("get_field")
    /\ LET r == get_field(call.grid, call.pos)
       IN  IF r.panic
           THEN fault' = "index out of bounds" /\ UNCHANGED ret
           ELSE ret' = <<r.field>> /\ UNCHANGED fault
    /\ CallUnchanged

CallCalculateField ==
    /\ Calling("calculate_field")
    /\ ret' = <<calculate_field(call.pos, call.centre, call.gradient, call.direction)>>
    /\ UNCHANGED fault
    /\ CallUnchanged

CallTwoLevel ==
    /\ Calling("twolevel")
    /\ ret' = <<CalculateTwoLevelPopulationSystem_run(call.linewidth, call.rates)>>
    /\ UNCHANGED fault
    /\ CallUnchanged

CallIfDetect ==
    /\ Calling("if_detect")
    /\ ret' = <<if_detect(call.detector, call.position)>>
    /\ UNCHANGED fault
    /\ CallUnchanged

NextCalls ==
    \/ CallPositionToGridIndex
    \/ CallGetField
    \/ CallCalculateField
    \/ CallTwoLevel
    \/ CallIfDetect

SpecCalls == InitCalls /\ [][NextCalls]_vars

\* ------------------------------------------------- claims of SpecCalls
Called(fn) == call.fn = fn /\ ret # NoResult

\* C12: position_to_grid_index returns the index of an existing cell,
\* 0 <= index < Nx * Ny * Nz, for every position (beyond the extent and on
\* its upper faces too), and get_field never reads outside the grid.
C12_IndexNamesACell ==
    /\ Called("position_to_grid_index") =>
          (0 <= ret[1] /\ ret[1] < CellCount(call.grid))
    /\ call.fn = "get_field" => fault = "none"

\* C14: along an axis-aligned unit symmetry axis calculate_field returns
\* -2 * gradient * d on the axis and gradient * d on the other two axes,
\* where d = pos - centre; pos = (1,1,1), centre = (0,1,0), gradient = 1 and
\* axis z give (1, 0, -2).
C14_QuadrupoleField ==
    Called("calculate_field") =>
        /\ \A i \in 1 .. 3 :
              ret[1][i] = IF call.direction[i] # 0
                          THEN -2 * call.gradient * (call.pos[i] - call.centre[i])
                          ELSE call.gradient * (call.pos[i] - call.centre[i])
        /\ call = QuadrupoleTest => ret[1] = Vec(1, 0, -2)

C14_Witness == call = QuadrupoleTest /\ ret = <<Vec(1, 0, -2)>>

\* The total of the rates of the call, summed over the beams as a set.
RECURSIVE RateTotal(_)
RateTotal(S) ==
    IF S = {} THEN 0
    ELSE LET i == CHOOSE x \in S : TRUE IN call.rates[i] + RateTotal(S \ {i})

TotalRate == RateTotal(DOMAIN call.rates)

\* r is a number (neither NaN nor infinite) of the interval [0, 1].
InUnitInterval(r) == ~r.nan /\ r.den > 0 /\ 0 <= r.num /\ r.num <= r.den

\* C15: for non-negative rates and a positive linewidth the excited fraction
\* is sum(R) / (linewidth * 2 pi + 2 sum(R)), it is in [0, 1), ground is
\* 1 - excited, and both populations are in [0, 1].
C15_PopulationsInUnitInterval ==
    (Called("twolevel") /\ call.linewidth > 0) =>
        LET e == ret[1].excited
            g == ret[1].ground
        IN  /\ InUnitInterval(e) /\ InUnitInterval(g)
            /\ e.num < e.den
            /\ e.num * (call.linewidth * 2 * PiNum + 2 * TotalRate * PiDen)
                  = e.den * TotalRate * PiDen
            /\ g.num * e.den + e.num * g.den = g.den * e.den

\* Two beams of different positive rates.
C15_Witness ==
    /\ Called("twolevel")
    /\ call.linewidth = 6
    /\ call.rates = <<5, 20>>
    /\ ret[1].excited.num > 0

\* C16: with a total rate of zero (no beam, or all rates 0) the populations
\* are excited = 0 and ground = 1, for every linewidth.
C16_ZeroRateLimit ==
    (Called("twolevel") /\ TotalRate = 0) =>
        /\ ret[1].excited = Real(0, 1)
        /\ ret[1].ground = Real(1, 1)

\* The position of the call is on a face of its box (or beyond it) on axis i.
OnOrBeyondFace(i) ==
    \/ call.position[i] >= call.detector.centre[i] + call.detector.range[i]
    \/ call.position[i] <= call.detector.centre[i] - call.detector.range[i]

\* C18: if_detect is true exactly when on each axis the position is nearer
\* to the centre than the range, centre - range < p < centre + range; a
\* position on a face is not detected; the box of centre (0,0,0) and range
\* (1,1,1) detects (0.9, 0.8, -0.7).
C18_StrictlyInsideBox ==
    Called("if_detect") =>
        /\ ret[1] = (\A i \in 1 .. 3 :
                        Abs(call.position[i] - call.detector.centre[i])
                            < call.detector.range[i])
        /\ (\E i \in 1 .. 3 : OnOrBeyondFace(i)) => ret[1] = FALSE
        /\ call = DetectTest => ret[1] = TRUE

\* The call of test_if_detect has returned true.
C18_Witness == call = DetectTest /\ ret = <<TRUE>>

\* ================================================================= C19
\* A system is taken up, or completes, in this step.
Starts(s) == sys_state[s] = "idle" /\ sys_state'[s] = "running"
Completes(s) == sys_state[s] = "running" /\ sys_state'[s] = "done"

\* C19: ticks do not overlap.  Within a tick a system only goes from idle to
\* running to done, so it runs once; the next tick begins only from a state
\* in which every system of this tick is done and dispatch has returned, and
\* that step applies the deferred removals and empties the queue; a system
\* starts only while dispatch is running.
C19_TicksDoNotOverlap ==
    [][ /\ \A s \in Systems :
              sys_state'[s] # sys_state[s] =>
                  \/ (Starts(s) \/ Completes(s)) /\ tick' = tick /\ phase = "dispatch"
                  \/ sys_state[s] = "done" /\ sys_state'[s] = "idle" /\ tick' = tick + 1
        /\ tick' # tick =>
              /\ tick' = tick + 1
              /\ phase = "maintain"
              /\ \A s \in Systems : sys_state[s] = "done" /\ sys_state'[s] = "idle"
              /\ lazy' = {}
              /\ \A c \in lazy :
                    /\ (c.op = "remove" /\ c.comp = "Position") => ~hasPos'[c.ent]
                    /\ (c.op = "remove" /\ c.comp = "Velocity") => ~hasVel'[c.ent]
      ]_vars

\* A system of the second tick is running after the removals queued in the
\* first tick have been applied.
C19_Witness ==
    /\ tick = 2
    /\ sys_state["magnetics_magnitude"] = "running"
    /\ \E e \in Atoms : marked_tick[e] = 1 /\ ~hasPos[e] /\ ~hasVel[e]

\* ================================================================= C20
\* The atoms the join over (&velocities, &boxids) puts into the cell of id k.
CellAtoms(k) == {e \in Atoms : hasVel[e] /\ hasBoxID[e] /\ boxid[e] = k}

Occurrences(seq, v) == Cardinality({i \in DOMAIN seq : seq[i] = v})

\* The map holds the current velocities by current BoxID and nothing else:
\* its keys are the ids (other than i64::MAX) of the atoms with Velocity and
\* BoxID, and each cell lists the velocities of exactly its atoms, is not
\* empty, and counts them in particle_number.
FreshMap ==
    /\ DOMAIN hashmap = {boxid[e] : e \in {a \in Atoms : hasVel[a] /\ hasBoxID[a]}}
                            \ {I64_MAX}
    /\ \A k \in DOMAIN hashmap :
          /\ Len(hashmap[k].velocities) >= 1
          /\ Len(hashmap[k].velocities) = Cardinality(CellAtoms(k))
          /\ \A e \in CellAtoms(k) :
                Occurrences(hashmap[k].velocities, vel[e])
                    = Cardinality({a \in CellAtoms(k) : vel[a] = vel[e]})
          /\ hashmap[k].particle_number = Len(hashmap[k].velocities)

BuildStep == sys_state["build"] = "idle" /\ sys_state'["build"] = "done"

\* C20: every run of BuildSpatialPartitionSystem leaves PartitionParameters
\* as they were and a VelocityHashmap that is determined by the velocities
\* and BoxIDs of the state it ends in: no cell or velocity of an earlier
\* build is left, no cell is empty, and particle_number is the number of
\* velocities of the cell.
C20_FreshMapEveryBuild ==
    [][BuildStep => (partition_params' = partition_params /\ FreshMap')]_vars

\* A build of a later tick has put both atoms into one cell.
C20_Witness ==
    /\ last_run = "build"
    /\ tick >= 2
    /\ \E k \in DOMAIN hashmap : hashmap[k].particle_number = 2

\* ================================================================= C21
\* The atoms DetectingAtomSystem has absorbed so far.
AbsorbedSoFar == {e \in Atoms : marked_tick[e] # 0}

\* C21: whatever the detectors, overlapping ones included, every particle is
\* counted at most once: number_of_atom is the number of distinct particles
\* absorbed so far.
C21_CountedAtMostOnce ==
    atom_output.number_of_atom = Cardinality(AbsorbedSoFar)

\* ================================================================= C22
\* The atoms with Position and Velocity whose position is inside the extent.
InsideAtoms == {e \in Atoms : hasPos[e] /\ hasVel[e] /\ ~OutsideExtent(e)}

OwnCell(e) ==
    pos_to_id(pos[e], partition_params.box_number, partition_params.box_width)

\* C22: after a run of BuildSpatialPartitionSystem every atom with Position
\* and Velocity inside the extent is recorded in exactly one cell, the cell
\* of pos_to_id of its position under the current parameters, in the tick of
\* its creation too: that cell exists and lists the velocities of exactly
\* the atoms that belong to it.
C22_EveryInsideAtomRecorded ==
    (last_run = "build" /\ ValidParams) =>
        \A e \in InsideAtoms :
            /\ OwnCell(e) \in DOMAIN hashmap
            /\ hashmap[OwnCell(e)].particle_number
                  = Cardinality({a \in InsideAtoms : OwnCell(a) = OwnCell(e)})

\* ================================================================= C23
\* The index triple of a position under the grid of the call.
IndexTriple(q) ==
    [i \in 1 .. 3 |->
        (2 * q[i] * id_args.width.den + id_args.n * id_args.width.num)
            \div (2 * id_args.width.num)]

\* Positions to compare a call with: near both faces of the grids and inside.
ProbeCoordinates == {-100, -99, -10, 0, 10, 99, 100}
ProbePositions ==
    {Vec(x, y, z) : x \in ProbeCoordinates, y \in ProbeCoordinates, z \in ProbeCoordinates}

\* C23: for n > 0 and width > 0 an id other than the sentinel is in
\* [0, n^3), and another position gets the same id only if it has the same
\* index triple: no position on a face is given the id of another cell.
C23_IdNamesOneCell ==
    (Returned /\ ValidGrid /\ id_ret[1] # I64_MAX) =>
        /\ 0 <= id_ret[1]
        /\ id_ret[1] < id_args.n * id_args.n * id_args.n
        /\ \A q \in ProbePositions :
              pos_to_id(q, id_args.n, id_args.width) = id_ret[1]
                  => IndexTriple(q) = IndexTriple(id_args.pos)

\* ================================================================= C24
\* C24: through every sequence of runs of BuildSpatialPartitionSystem and
\* RescalePartitionCellSystem from valid parameters, box_number stays a
\* positive integer and box_width a positive finite number.
C24_ParametersStayValid ==
    /\ partition_params.box_number > 0
    /\ ~partition_params.box_width.nan
    /\ partition_params.box_width.num > 0
    /\ partition_params.box_width.den > 0

\* ================================================================= C25
\* The position is inside the extent of the grid on every axis.
InsideGrid(g, p) ==
    \A i \in 1 .. 3 :
        /\ 2 * (p[i] - g.position[i]) + g.extent_spatial[i] >= 0
        /\ 2 * (p[i] - g.position[i]) < g.extent_spatial[i]

\* The coordinate, on axis i, of the cell that holds a position inside the
\* extent: the cells divide the extent evenly.
CellCoordinate(g, p, i) ==
    CHOOSE c \in 0 .. g.extent_cells[i] - 1 :
        LET delta2 == 2 * (p[i] - g.position[i]) + g.extent_spatial[i]
        IN  /\ c * 2 * g.extent_spatial[i] <= delta2 * g.extent_cells[i]
            /\ delta2 * g.extent_cells[i] < (c + 1) * 2 * g.extent_spatial[i]

CellTriple(g, p) == [i \in 1 .. 3 |-> CellCoordinate(g, p, i)]

\* C25: for every grid, with unequal cell counts too, position_to_grid_index
\* gives distinct cells distinct indices of the flattened array in z,y,x
\* priority: the index of cell (cx, cy, cz) is cz + Nz * (cy + Ny * cx), and
\* no position inside the extent of another cell gets the same index.
C25_DistinctCellsDistinctIndices ==
    (Called("position_to_grid_index") /\ InsideGrid(call.grid, call.pos)) =>
        LET g == call.grid
            c == CellTriple(g, call.pos)
        IN  /\ ret[1] = c[3] + g.extent_cells[3] * (c[2] + g.extent_cells[2] * c[1])
            /\ \A q \in GridPositions :
                  (InsideGrid(g, q) /\ position_to_grid_index(g, q) = ret[1])
                      => CellTriple(g, q) = c

====
